---- MODULE Spec2Model ----
(***************************************************************************)
(* Model of the yuck AST cursor (src/src/parser/ast.rs) and of the eww    *)
(* configuration resolver (crates/eww/src/config/eww_config.rs,           *)
(* crates/eww/src/main.rs).                                                *)
(*                                                                         *)
(* Rust values are modelled as follows:                                    *)
(*   Option<T>      <<>> for None, <<x>> for Some(x)                       *)
(*   Result<T, E>   [tag |-> "Ok", value |-> v] / [tag |-> "Err", error |-> e] *)
(*   HashMap<K, V>  a function whose DOMAIN is the key set                 *)
(*   Vec<T>         a sequence                                             *)
(*                                                                         *)
(* A record is written with its fields in the order TLC keeps them (the   *)
(* order in which the names first occur in this module), so that no       *)
(* record is re-sorted while two workers read it.                         *)
(***************************************************************************)
EXTENDS Integers, Sequences, FiniteSets, TLC

VARIABLES
    cursor,       \* the AstIterator: its PutBack adaptor [top, iter], and the nodes
                  \* its put_back calls have displaced
    last,         \* the last cursor operation: its name, the stream it was called on, its
                  \* result, and whether it followed a successful expect_key_values
    eww_config,   \* the EwwConfig snapshot held by the caller
    yuck_files,   \* the global YuckFiles registry of error_handling_ctx
    res           \* the last resolver operation: its name, its inputs, its result

vars == <<cursor, last, eww_config, yuck_files, res>>

(***************************************************************************)
(* Bounds                                                                  *)
(***************************************************************************)
\* longest node sequence handed to AstIterator::new
MaxLen == 4

(***************************************************************************)
(* Rust's Option and Result                                                *)
(***************************************************************************)
None == <<>>

Some(x) == <<x>>

Ok(v) == [tag |-> "Ok", value |-> v]

Err(e) == [tag |-> "Err", error |-> e]

IsOk(r) == r.tag = "Ok"

IsErr(r) == r.tag = "Err"

\* HashMap::new()
EmptyMap == [k \in {} |-> None]

\* HashMap::insert: a later insert of the same key replaces the value
insert(m, k, v) == [x \in (DOMAIN m) \cup {k} |-> IF x = k THEN v ELSE m[x]]

\* HashMap::extend(other): insert every entry of other
extend(m, other) ==
    [x \in (DOMAIN m) \cup (DOMAIN other) |-> IF x \in DOMAIN other THEN other[x] ELSE m[x]]

(***************************************************************************)
(* Span and the document AST                                               *)
(***************************************************************************)
Span(file_id, start, end) == <<file_id, start, end>>

AstType == {"List", "Array", "Keyword", "Symbol", "Literal", "SimplExpr", "Comment",
            "IntoPrimitive"}

List(sp, x) == [span |-> sp, type |-> "List", val |-> x]

Array(sp, x) == [span |-> sp, type |-> "Array", val |-> x]

Keyword(sp, x) == [span |-> sp, type |-> "Keyword", val |-> x]

Symbol(sp, x) == [span |-> sp, type |-> "Symbol", val |-> x]

Literal(sp, x) == [span |-> sp, type |-> "Literal", val |-> x]

SimplExpr(sp, x) == [span |-> sp, type |-> "SimplExpr", val |-> x]

Comment(sp) == [span |-> sp, type |-> "Comment", val |-> ""]

\* Ast::expr_type
expr_type(node) == node.type

\* Ast::span
span(node) == node.span

\* AstError::WrongExprType(Option<Span>, expected, actual)
WrongExprType(sp, expected, actual) ==
    [span |-> sp, expected |-> expected, actual |-> actual, kind |-> "WrongExprType"]

\* AstError::MissingNode(Option<Span>)
MissingNode(sp) == [span |-> sp, kind |-> "MissingNode"]

\* simplexpr's SimplExpr::Literal(span, value) and SimplExpr::VarRef(span, name)
SimplExprLiteral(sp, x) == [span |-> sp, val |-> x, expr |-> "Literal"]

SimplExprVarRef(sp, x) == [span |-> sp, val |-> x, expr |-> "VarRef"]

\* Ast::as_simplexpr: a Literal is lifted, a SimplExpr is unwrapped, the rest fail
as_simplexpr(node) ==
    CASE node.type = "Literal" -> Ok(SimplExprLiteral(node.span, node.val))
      [] node.type = "SimplExpr" -> Ok(node.val)
      [] OTHER -> Err(WrongExprType(Some(span(node)), "IntoPrimitive", expr_type(node)))

\* The conversion targets T of expect_any<T> and expect_key_values<T>
Targets == {"Ast", "SimplExpr"}

\* T::from_ast: the identity for T = Ast, as_simplexpr for T = SimplExpr
from_ast(T, node) == IF T = "Ast" THEN Ok(node) ELSE as_simplexpr(node)

\* OptionAstErrorExt::or_missing
or_missing(opt) == IF opt = None THEN Err(MissingNode(None)) ELSE Ok(opt[1])

(***************************************************************************)
(* itertools::PutBack, the adaptor AstIterator wraps                       *)
(***************************************************************************)
\* itertools::put_back(iter); displaced is history, not a field of the adaptor: the
\* nodes that a put_back found in the slot and replaced
PutBack(iter) == [iter |-> iter, top |-> None, displaced |-> <<>>]

\* PutBack::next: the held-back node if there is one, else the iterator's next
PutBackNext(pb) ==
    IF pb.top # None
    THEN [pb |-> [pb EXCEPT !.top = None], item |-> pb.top]
    ELSE IF pb.iter = <<>>
         THEN [pb |-> pb, item |-> None]
         ELSE [pb |-> [pb EXCEPT !.iter = Tail(pb.iter)], item |-> Some(Head(pb.iter))]

\* PutBack::put_back: the slot holds x, whatever it held before; a node it held is
\* gone from the stream
put_back(pb, x) == [pb EXCEPT !.top = Some(x), !.displaced = pb.displaced \o pb.top]

\* The nodes later reads return, in order
Stream(pb) == pb.top \o pb.iter

(***************************************************************************)
(* AstIterator                                                             *)
(***************************************************************************)
\* AstIterator::new
new(iter) == PutBack(iter)

\* Iterator::next for AstIterator
next(self) ==
    LET n == PutBackNext(self)
    IN  [cursor |-> n.pb, result |-> n.item]

\* return_or_put_back! without the put_back of a mismatching node
return_or_put_back_NoPutBack(self, expected) ==
    LET n == next(self)
    IN  IF n.result = None
        THEN [cursor |-> n.cursor, result |-> Err(MissingNode(None))]
        ELSE LET node == n.result[1]
             IN  IF node.type = expected
                 THEN [cursor |-> n.cursor, result |-> Ok(<<node.span, node.val>>)]
                 ELSE [cursor |-> n.cursor,
                       result |-> Err(WrongExprType(Some(span(node)), expected,
                                                    expr_type(node)))]

\* return_or_put_back! reporting exhaustion as a mismatch at a dummy span
return_or_put_back_MissingSpan(self, expected) ==
    LET n == next(self)
    IN  IF n.result = None
        THEN [cursor |-> n.cursor, result |-> Err(MissingNode(Some(Span(0, 0, 0))))]
        ELSE LET node == n.result[1]
             IN  IF node.type = expected
                 THEN [cursor |-> n.cursor, result |-> Ok(<<node.span, node.val>>)]
                 ELSE [cursor |-> put_back(n.cursor, node),
                       result |-> Err(WrongExprType(Some(span(node)), expected,
                                                    expr_type(node)))]

\* The body the macro return_or_put_back! expands to, for the expected node type
return_or_put_back(self, expected) ==
    LET n == next(self)
    IN  IF n.result = None
        THEN [cursor |-> n.cursor, result |-> Err(MissingNode(None))]
        ELSE LET node == n.result[1]
             IN  IF node.type = expected
                 THEN [cursor |-> n.cursor, result |-> Ok(<<node.span, node.val>>)]
                 ELSE [cursor |-> put_back(n.cursor, node),
                       result |-> Err(WrongExprType(Some(span(node)), expected,
                                                    expr_type(node)))]

expect_symbol(self) == return_or_put_back(self, "Symbol")

expect_literal(self) == return_or_put_back(self, "Literal")

expect_list(self) == return_or_put_back(self, "List")

expect_array(self) == return_or_put_back(self, "Array")

\* expect_any putting the node back when it does not convert, as the typed
\* expect_* do on a mismatch
expect_any_PutBack(T, self) ==
    LET n == PutBackNext(self)
        m == or_missing(n.item)
    IN  IF IsOk(m) /\ IsErr(from_ast(T, m.value))
        THEN [cursor |-> put_back(n.pb, m.value), result |-> from_ast(T, m.value)]
        ELSE [cursor |-> n.pb, result |-> IF IsOk(m) THEN from_ast(T, m.value) ELSE m]

\* AstIterator::expect_any: iter.next().or_missing().and_then(T::from_ast)
expect_any(T, self) ==
    LET n == PutBackNext(self)
        m == or_missing(n.item)
    IN  [cursor |-> n.pb, result |-> IF IsOk(m) THEN from_ast(T, m.value) ELSE m]

\* kv_dangling treating the keyword without a value as an error
kv_dangling_Error(pb, sp, kw, data) ==
    [cursor |-> pb, result |-> Err(MissingNode(Some(sp)))]

\* kv_other dropping the node it stopped at
kv_other_Dropped(pb, expr, data) == [cursor |-> pb, result |-> Ok(data)]

\* parse_key_values, a keyword was read and the iterator is exhausted after it:
\* the keyword is put back and the pairs collected so far are returned
kv_dangling(pb, sp, kw, data) ==
    [cursor |-> put_back(pb, Keyword(sp, kw)), result |-> Ok(data)]

\* parse_key_values, the node in keyword position is no keyword: it is put back
kv_other(pb, expr, data) == [cursor |-> put_back(pb, expr), result |-> Ok(data)]

\* parse_key_values, a keyword and its value were read: the converted value is
\* inserted under the keyword's name, or the conversion error is returned
kv_pair(T, data, kw, value) ==
    LET v == from_ast(T, value)
    IN  IF IsOk(v) THEN Ok(insert(data, kw, v.value)) ELSE v

\* kv_loop returning after the first pair instead of looping
kv_loop_Once(T, pb, data) ==
    LET a == PutBackNext(pb)
    IN  IF a.item = None
        THEN [cursor |-> a.pb, result |-> Ok(data)]
        ELSE IF a.item[1].type = "Keyword"
             THEN LET b == PutBackNext(a.pb)
                  IN  IF b.item = None
                      THEN kv_dangling(b.pb, a.item[1].span, a.item[1].val, data)
                      ELSE [cursor |-> b.pb,
                            result |-> kv_pair(T, data, a.item[1].val, b.item[1])]
             ELSE kv_other(a.pb, a.item[1], data)

\* kv_loop giving back the value and then the keyword of a pair whose value does
\* not convert
RECURSIVE kv_loop_Restore(_, _, _)
kv_loop_Restore(T, pb, data) ==
    LET a == PutBackNext(pb)
    IN  IF a.item = None
        THEN [cursor |-> a.pb, result |-> Ok(data)]
        ELSE IF a.item[1].type = "Keyword"
             THEN LET b == PutBackNext(a.pb)
                  IN  IF b.item = None
                      THEN kv_dangling(b.pb, a.item[1].span, a.item[1].val, data)
                      ELSE LET d == kv_pair(T, data, a.item[1].val, b.item[1])
                           IN  IF IsOk(d)
                               THEN kv_loop_Restore(T, b.pb, d.value)
                               ELSE [cursor |-> put_back(put_back(b.pb, b.item[1]),
                                                         a.item[1]),
                                     result |-> d]
             ELSE kv_other(a.pb, a.item[1], data)

\* The loop of parse_key_values, data being the HashMap collected so far
RECURSIVE kv_loop(_, _, _)
kv_loop(T, pb, data) ==
    LET a == PutBackNext(pb)
    IN  IF a.item = None
        THEN [cursor |-> a.pb, result |-> Ok(data)]
        ELSE IF a.item[1].type = "Keyword"
             THEN LET b == PutBackNext(a.pb)
                  IN  IF b.item = None
                      THEN kv_dangling(b.pb, a.item[1].span, a.item[1].val, data)
                      ELSE LET d == kv_pair(T, data, a.item[1].val, b.item[1])
                           IN  IF IsOk(d)
                               THEN kv_loop(T, b.pb, d.value)
                               ELSE [cursor |-> b.pb, result |-> d]
             ELSE kv_other(a.pb, a.item[1], data)

parse_key_values(T, iter) == kv_loop(T, iter, EmptyMap)

\* AstIterator::expect_key_values
expect_key_values(T, self) == parse_key_values(T, self)

(***************************************************************************)
(* The node sequences a cursor is built over                               *)
(***************************************************************************)
\* Node shapes; a node of the input takes its span from its position
NodePool ==
    << [type |-> "Symbol", val |-> "x"],
       [type |-> "Keyword", val |-> "a"],
       [type |-> "Keyword", val |-> "b"],
       [type |-> "Literal", val |-> "1"],
       [type |-> "List", val |-> <<Symbol(Span(0, 0, 0), "w")>>],
       [type |-> "Array", val |-> <<>>],
       [type |-> "SimplExpr", val |-> SimplExprVarRef(Span(0, 0, 0), "v")],
       [type |-> "Comment", val |-> ""] >>

SpanAt(i) == Span(0, i - 1, i)

NodeAt(shape, i) == [span |-> SpanAt(i), type |-> shape.type, val |-> shape.val]

\* the tail :a 1 :b 2 3
ScenarioKeyValues ==
    << [type |-> "Keyword", val |-> "a"], [type |-> "Literal", val |-> "1"],
       [type |-> "Keyword", val |-> "b"], [type |-> "Literal", val |-> "2"],
       [type |-> "Literal", val |-> "3"] >>

\* the tail :a
ScenarioDangling == << [type |-> "Keyword", val |-> "a"] >>

ScenarioTails == {ScenarioKeyValues, ScenarioDangling}

Spanned(shapes) == [i \in 1..Len(shapes) |-> NodeAt(shapes[i], i)]

(***************************************************************************)
(* The resolver's state while the cursor runs                              *)
(***************************************************************************)
\* EwwConfig::default
DefaultConfig ==
    [widgets |-> EmptyMap, windows |-> EmptyMap, initial_variables |-> EmptyMap,
     script_vars |-> EmptyMap]

NoCall == [op |-> "none"]

(***************************************************************************)
(* Cursor specification                                                    *)
(***************************************************************************)
InitCursor ==
    /\ \/ \E n \in 0..MaxLen : \E f \in [1..n -> 1..Len(NodePool)] :
              cursor = new([i \in 1..n |-> NodeAt(NodePool[f[i]], i)])
       \/ \E shapes \in ScenarioTails : cursor = new(Spanned(shapes))
    /\ last = [T |-> "", op |-> "new", pre |-> Stream(cursor), ret |-> None,
               after_kv |-> FALSE]
    /\ eww_config = DefaultConfig
    /\ yuck_files = {}
    /\ res = NoCall

Called(op, T, r) ==
    /\ cursor' = r.cursor
    /\ last' = [T |-> T, op |-> op, pre |-> Stream(cursor), ret |-> r.result,
                after_kv |-> IF last.op = "expect_key_values"
                             THEN IsOk(last.ret) ELSE FALSE]
    /\ UNCHANGED <<eww_config, yuck_files, res>>

CallNext == Called("next", "", next(cursor))

CallExpectSymbol == Called("expect_symbol", "", expect_symbol(cursor))

CallExpectLiteral == Called("expect_literal", "", expect_literal(cursor))

CallExpectList == Called("expect_list", "", expect_list(cursor))

CallExpectArray == Called("expect_array", "", expect_array(cursor))

CallExpectAny == \E T \in Targets : Called("expect_any", T, expect_any(T, cursor))

CallExpectKeyValues ==
    \E T \in Targets : Called("expect_key_values", T, expect_key_values(T, cursor))

NextCursor ==
    \/ CallNext
    \/ CallExpectSymbol
    \/ CallExpectLiteral
    \/ CallExpectList
    \/ CallExpectArray
    \/ CallExpectAny
    \/ CallExpectKeyValues

Spec == InitCursor /\ [][NextCursor]_vars

(***************************************************************************)
(* Paths, the file system and the environment                              *)
(***************************************************************************)
\* The root paths a caller may give
Paths == {"/missing", "/cfg", "/cfg/.", "/cfg/eww.yuck"}

\* What the file system holds at a path: a directory /cfg with a file eww.yuck in it
PathKind(path) ==
    CASE path = "/cfg" -> "dir"
      [] path = "/cfg/." -> "dir"
      [] path = "/cfg/eww.yuck" -> "file"
      [] OTHER -> "absent"

\* Path::exists
exists(path) == PathKind(path) # "absent"

\* Path::is_file
is_file(path) == PathKind(path) = "file"

\* Path::canonicalize, of an existing path
canonicalize(path) == IF path = "/cfg/." THEN Ok("/cfg") ELSE Ok(path)

\* Path::display
display(path) == path

\* base64::encode, kept symbolic
base64_encode(text) == <<"base64", text>>

\* The environments from_config_dir may run in: each variable unset or set
EnvVars == {"XDG_CACHE_HOME", "HOME", "XDG_RUNTIME_DIR"}

Envs == [EnvVars -> {None, Some("/env")}]

\* anyhow's bail!(format!(...)): the error holds the message, as its fragments
bail(msg) == Err([msg |-> msg])

\* whether a message includes the text
Includes(msg, text) == \E i \in 1..Len(msg) : msg[i] = text

MsgNotADirectory ==
    <<"Please provide the path to the config directory, not a file within it">>

\* The EwwPaths from_config_dir builds for an existing directory;
\* std::env::var("HOME").unwrap() panics when HOME is needed and unset
EwwPaths(config_dir, env) ==
    LET dir == canonicalize(config_dir)
    IN  IF IsErr(dir) THEN dir
        ELSE IF env["XDG_CACHE_HOME"] = None /\ env["HOME"] = None
             THEN [tag |-> "Panic"]
             ELSE LET daemon_id == base64_encode(display(dir.value))
                      cache == IF env["XDG_CACHE_HOME"] # None
                               THEN env["XDG_CACHE_HOME"]
                               ELSE env["HOME"] \o <<".cache">>
                      runtime == IF env["XDG_RUNTIME_DIR"] # None
                                 THEN env["XDG_RUNTIME_DIR"]
                                 ELSE <<"/tmp">>
                  IN  Ok([config_dir |-> dir.value,
                          log_file |-> <<cache, "eww_", daemon_id, ".log">>,
                          ipc_socket_file |-> <<runtime, "eww-server_", daemon_id>>])

\* from_config_dir whose not-found message leaves the path out
from_config_dir_NoPath(config_dir, env) ==
    IF is_file(config_dir)
    THEN bail(MsgNotADirectory)
    ELSE IF ~exists(config_dir)
         THEN bail(<<"Configuration directory does not exist">>)
         ELSE EwwPaths(config_dir, env)

\* EwwPaths::from_config_dir
from_config_dir(config_dir, env) ==
    IF is_file(config_dir)
    THEN bail(MsgNotADirectory)
    ELSE IF ~exists(config_dir)
         THEN bail(<<"Configuration directory ", display(config_dir), " does not exist">>)
         ELSE EwwPaths(config_dir, env)

(***************************************************************************)
(* The parsed document (yuck's Config) and its collaborators               *)
(***************************************************************************)
\* the maps from a subset of Keys to Vals
MapsOver(Keys, Vals) == UNION {[K -> Vals] : K \in SUBSET Keys}

\* ScriptVarDefinition: the command that computes the variable's initial value
ScriptVar(command) == [command |-> command]

\* config::inbuilt::get_inbuilt_vars: the platform's script variables
get_inbuilt_vars == [name \in {"EWW_RAM"} |-> ScriptVar("inbuilt")]

\* script_var::initial_value: one blocking call that succeeds or fails
initial_value(var) ==
    CASE var.command = "echo a" -> Ok("a")
      [] var.command = "inbuilt" -> Ok("0")
      [] OTHER -> bail(<<"Failed to compute initial value: ", var.command>>)

\* EwwWindowDefinition::generate: resolve the window's widget against the definitions
EwwWindowDefinition_generate(widget_definitions, window) ==
    IF window.widget \in DOMAIN widget_definitions
    THEN Ok([widget |-> widget_definitions[window.widget]])
    ELSE bail(<<"No widget named ", window.widget, " exists">>)

WidgetMaps == MapsOver({"bar"}, {[body |-> "box"]})

WindowMaps == MapsOver({"win1", "win2"}, {[widget |-> "bar"], [widget |-> "foo"]})

VarMaps == MapsOver({"x", "v"}, {[initial_value |-> "b"]})

ScriptVarMaps ==
    {m \in MapsOver({"x", "s", "EWW_RAM"}, {ScriptVar("echo a"), ScriptVar("false")}) :
        "EWW_RAM" \in DOMAIN m => m["EWW_RAM"] = ScriptVar("echo a")}

Config(widget_definitions, window_definitions, var_definitions, script_vars) ==
    [script_vars |-> script_vars, widget_definitions |-> widget_definitions,
     window_definitions |-> window_definitions, var_definitions |-> var_definitions]

\* The documents a configuration file may hold: every combination of windows and
\* widgets, with one choice of variables; and every combination of variables, with
\* one window
Documents ==
    {Config(wd, wn, [n \in {"x"} |-> [initial_value |-> "b"]],
            [n \in {"x"} |-> ScriptVar("echo a")]) : wd \in WidgetMaps, wn \in WindowMaps}
    \cup
    {Config([n \in {"bar"} |-> [body |-> "box"]], [n \in {"win1"} |-> [widget |-> "bar"]],
            vd, sv) : vd \in VarMaps, sv \in ScriptVarMaps}

\* The outcomes of Config::generate_from_main_file on an existing path
ParseOutcomes == {bail(<<"parse error">>)} \cup {Ok(doc) : doc \in Documents}

(***************************************************************************)
(* EwwConfig                                                               *)
(***************************************************************************)
\* collect::<Result<HashMap<_, _>>>() that skips the entries that failed
collect_Lenient(results) ==
    {Ok([k \in {n \in DOMAIN results : IsOk(results[n])} |-> results[k].value])}

\* collect::<Result<HashMap<_, _>>>() over the entries of a HashMap, each mapped to a
\* Result: the map of the values when all succeed, else the first error met; the
\* HashMap's iteration order decides which error is first
collect(results) ==
    IF \A k \in DOMAIN results : IsOk(results[k])
    THEN {Ok([k \in DOMAIN results |-> results[k].value])}
    ELSE {results[k] : k \in {n \in DOMAIN results : IsErr(results[n])}}

\* read_from_file extending the inbuilt variables by the user's script variables
EwwConfig_read_from_file_UserWins(path, parsed) ==
    IF ~exists(path)
    THEN {bail(<<"The configuration file ", display(path), " does not exist">>)}
    ELSE IF IsErr(parsed)
         THEN {parsed}
         ELSE LET config == parsed.value
                  script_vars == extend(get_inbuilt_vars, config.script_vars)
                  windows ==
                      collect([name \in DOMAIN config.window_definitions |->
                                  EwwWindowDefinition_generate(
                                      config.widget_definitions,
                                      config.window_definitions[name])])
              IN  {IF IsErr(w) THEN w
                   ELSE Ok([widgets |-> config.widget_definitions,
                            windows |-> w.value,
                            initial_variables |->
                                [k \in DOMAIN config.var_definitions |->
                                    config.var_definitions[k].initial_value],
                            script_vars |-> script_vars]) : w \in windows}

\* EwwConfig::read_from_file, parsed being what Config::generate_from_main_file
\* returns for the path; the set of results it may return (the message's quotes
\* around the path are left out)
EwwConfig_read_from_file(path, parsed) ==
    IF ~exists(path)
    THEN {bail(<<"The configuration file ", display(path), " does not exist">>)}
    ELSE IF IsErr(parsed)
         THEN {parsed}
         ELSE LET config == parsed.value
                  script_vars == extend(config.script_vars, get_inbuilt_vars)
                  windows ==
                      collect([name \in DOMAIN config.window_definitions |->
                                  EwwWindowDefinition_generate(
                                      config.widget_definitions,
                                      config.window_definitions[name])])
              IN  {IF IsErr(w) THEN w
                   ELSE Ok([widgets |-> config.widget_definitions,
                            windows |-> w.value,
                            initial_variables |->
                                [k \in DOMAIN config.var_definitions |->
                                    config.var_definitions[k].initial_value],
                            script_vars |-> script_vars]) : w \in windows}

\* generate_initial_state extending the static variables by the computed ones
generate_initial_state_ComputedWins(self) ==
    LET vars_ == collect([name \in DOMAIN self.script_vars |->
                             initial_value(self.script_vars[name])])
    IN  {IF IsErr(v) THEN v ELSE Ok(extend(self.initial_variables, v.value)) : v \in vars_}

\* generate_initial_state skipping the script variables whose computation fails
generate_initial_state_Partial(self) ==
    LET vars_ == collect_Lenient([name \in DOMAIN self.script_vars |->
                                     initial_value(self.script_vars[name])])
    IN  {IF IsErr(v) THEN v ELSE Ok(extend(v.value, self.initial_variables)) : v \in vars_}

\* EwwConfig::generate_initial_state; the set of results it may return
generate_initial_state(self) ==
    LET vars_ == collect([name \in DOMAIN self.script_vars |->
                             initial_value(self.script_vars[name])])
    IN  {IF IsErr(v) THEN v ELSE Ok(extend(v.value, self.initial_variables)) : v \in vars_}

\* error_handling_ctx::clear_files
clear_files == {}

\* What the caller does with the result of a load: a loaded configuration replaces
\* the snapshot it holds, a failed load leaves it
Replace(snapshot, loaded) == IF IsOk(loaded) THEN loaded.value ELSE snapshot

(***************************************************************************)
(* Resolver specification                                                  *)
(***************************************************************************)
InitConfig ==
    /\ cursor = new(<<>>)
    /\ last = [T |-> "", op |-> "new", pre |-> <<>>, ret |-> None, after_kv |-> FALSE]
    /\ eww_config = DefaultConfig
    /\ yuck_files = {}
    /\ res = NoCall

\* config::read_from_file, and the caller taking its result
ReadFromFile ==
    \E path \in Paths, parsed \in ParseOutcomes :
        \E loaded \in EwwConfig_read_from_file(path, parsed) :
            /\ yuck_files' = IF exists(path) THEN clear_files \cup {path} ELSE clear_files
            /\ eww_config' = Replace(eww_config, loaded)
            /\ res' = [op |-> "read_from_file", ret |-> loaded, path |-> path,
                       parsed |-> parsed, prev |-> eww_config]
            /\ UNCHANGED <<cursor, last>>

GenerateInitialState ==
    \E state \in generate_initial_state(eww_config) :
        /\ res' = [self |-> eww_config, op |-> "generate_initial_state", ret |-> state]
        /\ UNCHANGED <<cursor, last, eww_config, yuck_files>>

FromConfigDir ==
    \E path \in Paths, env \in Envs :
        /\ res' = [op |-> "from_config_dir", ret |-> from_config_dir(path, env), path |-> path,
                   env |-> env]
        /\ UNCHANGED <<cursor, last, eww_config, yuck_files>>

NextConfig ==
    \/ ReadFromFile
    \/ GenerateInitialState
    \/ FromConfigDir

SpecConfig == InitConfig /\ [][NextConfig]_vars

(***************************************************************************)
(* Properties of the cursor                                                *)
(***************************************************************************)
TypedOps == {"expect_symbol", "expect_literal", "expect_list", "expect_array"}

ExpectedOf(op) ==
    CASE op = "expect_symbol" -> "Symbol"
      [] op = "expect_literal" -> "Literal"
      [] op = "expect_list" -> "List"
      [] op = "expect_array" -> "Array"

\* C1: a typed expect_* called on a non-empty stream either returned the span and
\* content of the front node, which is of the expected type, and the stream is now the
\* rest; or it returned a type-mismatch error whose actual tag is the front node's tag
\* and the stream is the one it was called on.
C1_ExpectTyped ==
    (last.op \in TypedOps /\ last.pre # <<>>) =>
        LET h == Head(last.pre)
        IN  \/ /\ IsOk(last.ret)
               /\ h.type = ExpectedOf(last.op)
               /\ last.ret.value = <<h.span, h.val>>
               /\ Stream(cursor) = Tail(last.pre)
            \/ /\ IsErr(last.ret)
               /\ last.ret.error.kind = "WrongExprType"
               /\ last.ret.error.actual = h.type
               /\ Stream(cursor) = last.pre

\* a typed expect_* met a node of another type, with more nodes behind it
C1_Witness ==
    /\ last.op \in TypedOps
    /\ Len(last.pre) >= 2
    /\ IsErr(last.ret)
    /\ cursor.top # None

IsOdd(i) == i % 2 = 1

\* the length of the longest leading run of Keyword/value pairs of s
RunLen(s) ==
    CHOOSE k \in 0..Len(s) :
        /\ k % 2 = 0
        /\ \A j \in 1..k : IsOdd(j) => s[j].type = "Keyword"
        /\ \A k2 \in (k + 1)..Len(s) :
               k2 % 2 = 0 => \E j \in 1..k2 : IsOdd(j) /\ s[j].type # "Keyword"

\* the position of the last pair among the first k nodes of s whose keyword is name
LastPair(s, k, name) ==
    CHOOSE j \in 1..k :
        /\ IsOdd(j) /\ s[j].val = name
        /\ \A j2 \in (j + 1)..k : IsOdd(j2) => s[j2].val # name

\* the mapping of the pairs among the first k nodes of s, the last pair of a name winning
PairsMap(T, s, k) ==
    [name \in {s[j].val : j \in {i \in 1..k : IsOdd(i)}} |->
        from_ast(T, s[LastPair(s, k, name) + 1]).value]

\* C2: a successful expect_key_values consumed the longest leading run of
\* Keyword/value pairs, returned the mapping of each keyword name to its converted
\* value (the last pair of a name winning), and the stream now starts at the node it
\* stopped at; on the tail :a 1 :b 2 3 it returned {a: 1, b: 2} and next() returns 3.
C2_KeyValues ==
    (last.op = "expect_key_values" /\ IsOk(last.ret)) =>
        LET s == last.pre
            k == RunLen(s)
        IN  /\ last.ret.value = PairsMap(last.T, s, k)
            /\ Stream(cursor) = SubSeq(s, k + 1, Len(s))
            /\ s = Spanned(ScenarioKeyValues) =>
                   /\ DOMAIN last.ret.value = {"a", "b"}
                   /\ last.ret.value["a"] = from_ast(last.T, Literal(SpanAt(2), "1")).value
                   /\ last.ret.value["b"] = from_ast(last.T, Literal(SpanAt(4), "2")).value
                   /\ next(cursor).result = Some(Literal(SpanAt(5), "3"))

\* expect_key_values has returned on the tail :a 1 :b 2 3
C2_Witness ==
    /\ last.op = "expect_key_values"
    /\ IsOk(last.ret)
    /\ last.pre = Spanned(ScenarioKeyValues)

\* s is a run of Keyword/value pairs followed by one last Keyword
Dangling(s) ==
    /\ IsOdd(Len(s))
    /\ RunLen(s) = Len(s) - 1
    /\ s[Len(s)].type = "Keyword"

\* C3: expect_key_values on pairs followed by a Keyword with nothing after it succeeds
\* whenever the pairs convert: it returns the mapping of the pairs before that Keyword
\* (the empty mapping for the tail :a), and the next read returns that Keyword.
C3_DanglingKeyword ==
    (/\ last.op = "expect_key_values"
     /\ last.pre # <<>>
     /\ Dangling(last.pre)
     /\ \A j \in 1..(Len(last.pre) - 1) :
            ~IsOdd(j) => IsOk(from_ast(last.T, last.pre[j]))) =>
        LET s == last.pre
        IN  /\ IsOk(last.ret)
            /\ last.ret.value = PairsMap(last.T, s, Len(s) - 1)
            /\ Len(s) = 1 => DOMAIN last.ret.value = {}
            /\ next(cursor).result = Some(s[Len(s)])
            /\ cursor.iter = <<>>

\* expect_key_values has returned on a pair followed by a dangling keyword
C3_Witness ==
    /\ last.op = "expect_key_values"
    /\ Len(last.pre) = 3
    /\ Dangling(last.pre)
    /\ IsOk(last.ret)
    /\ DOMAIN last.ret.value # {}

\* C4: an expect_key_values called right after a successful expect_key_values returns
\* the empty mapping and leaves the stream as it found it.
C4_Idempotent ==
    (last.op = "expect_key_values" /\ last.after_kv) =>
        /\ IsOk(last.ret)
        /\ DOMAIN last.ret.value = {}
        /\ Stream(cursor) = last.pre

\* the second of two calls, the first having collected a pair and stopped at a node
C4_Witness ==
    /\ last.op = "expect_key_values"
    /\ last.after_kv
    /\ last.pre # <<>>

ExtractionOps == TypedOps \cup {"expect_any", "expect_key_values"}

\* the result of the extraction operation op on a cursor
Extract(op, T, self) ==
    CASE op \in TypedOps -> return_or_put_back(self, ExpectedOf(op)).result
      [] op = "expect_any" -> expect_any(T, self).result
      [] op = "expect_key_values" -> expect_key_values(T, self).result

\* s without its Comment nodes
RECURSIVE StripComments(_)
StripComments(s) ==
    IF s = <<>> THEN <<>>
    ELSE IF Head(s).type = "Comment" THEN StripComments(Tail(s))
         ELSE <<Head(s)>> \o StripComments(Tail(s))

\* C5: the result of every extraction operation is the result the operation has on
\* the same sequence with its Comment nodes removed.
C5_CommentsSkippable ==
    last.op \in ExtractionOps =>
        last.ret = Extract(last.op, last.T, new(StripComments(last.pre)))

\* C10: a typed expect_* or expect_any called on an exhausted cursor fails with a
\* missing-node error without a span, and the cursor stays exhausted: next() returns
\* nothing.
C10_Exhausted ==
    (last.op \in TypedOps \cup {"expect_any"} /\ last.pre = <<>>) =>
        /\ IsErr(last.ret)
        /\ last.ret.error = MissingNode(None)
        /\ Stream(cursor) = <<>>
        /\ next(cursor).result = None
        /\ next(cursor).cursor = cursor

\* a typed expect_* has failed on a cursor that earlier reads had exhausted
C10_Witness ==
    /\ last.op \in TypedOps
    /\ last.pre = <<>>
    /\ IsErr(last.ret)

\* s is what is left of t after reading some of its nodes
IsSuffix(s, t) == \E k \in 0..Len(t) : s = SubSeq(t, k + 1, Len(t))

\* C11: the cursor holds at most one pushed-back node; no put_back has found the slot
\* occupied, so no held node was replaced, and the stream is what is left of the stream
\* the last operation was called on: a pushed-back node is the last node the operation
\* read and nothing behind it is lost; next and expect_any push nothing back.
C11_PushbackDepth ==
    /\ Len(cursor.top) <= 1
    /\ cursor.displaced = <<>>
    /\ IsSuffix(Stream(cursor), last.pre)
    /\ cursor.top # None =>
           cursor.top[1] = last.pre[Len(last.pre) - Len(Stream(cursor)) + 1]
    /\ last.op \in {"next", "expect_any"} => cursor.top = None

\* expect_key_values was called while the slot held the node an earlier
\* expect_key_values had pushed back: it has read that node and pushed it back again,
\* with more nodes behind it
C11_Witness ==
    /\ last.op = "expect_key_values"
    /\ last.after_kv
    /\ Len(last.pre) >= 2
    /\ cursor.top = Some(Head(last.pre))
    /\ cursor.iter # <<>>

\* j is the position in s of the value of the first pair whose value does not
\* convert to T: the nodes before it are pairs of a Keyword and a converting value
FirstFailure(T, s, j) ==
    /\ j \in 1..Len(s)
    /\ ~IsOdd(j)
    /\ \A i \in 1..j : IsOdd(i) => s[i].type = "Keyword"
    /\ \A i \in 1..(j - 1) : ~IsOdd(i) => IsOk(from_ast(T, s[i]))
    /\ IsErr(from_ast(T, s[j]))

\* C13: an expect_any whose node does not convert returns the conversion's error and
\* the node stays consumed; an expect_key_values that meets a pair whose value does
\* not convert returns the conversion's error and no mapping, the slot is empty, and
\* the stream starts at the node behind that value: the pairs before it, its keyword
\* and the value stay consumed.
C13_ConversionFailure ==
    /\ (/\ last.op = "expect_any"
         /\ last.pre # <<>>
         /\ IsErr(from_ast(last.T, Head(last.pre)))) =>
            /\ last.ret = from_ast(last.T, Head(last.pre))
            /\ cursor.top = None
            /\ Stream(cursor) = Tail(last.pre)
    /\ last.op = "expect_key_values" =>
            \A j \in 1..Len(last.pre) :
                FirstFailure(last.T, last.pre, j) =>
                    /\ last.ret = from_ast(last.T, last.pre[j])
                    /\ DOMAIN last.ret = {"tag", "error"}
                    /\ cursor.top = None
                    /\ Stream(cursor) = SubSeq(last.pre, j + 1, Len(last.pre))
                    /\ next(cursor).result =
                           IF j < Len(last.pre) THEN Some(last.pre[j + 1]) ELSE None
    /\ (last.op = "expect_key_values" /\ IsErr(last.ret)) =>
            \E j \in 1..Len(last.pre) : FirstFailure(last.T, last.pre, j)

\* expect_key_values has failed on the value of the first pair, with two nodes behind
\* it that the next reads return
C13_Witness ==
    /\ last.op = "expect_key_values"
    /\ IsErr(last.ret)
    /\ Len(last.pre) = 4
    /\ FirstFailure(last.T, last.pre, 2)
    /\ Stream(cursor) = SubSeq(last.pre, 3, 4)

(***************************************************************************)
(* Properties of the resolver                                              *)
(***************************************************************************)
\* the script variables of a configuration whose initial value cannot be computed
FailingVars(config) ==
    {n \in DOMAIN config.script_vars : IsErr(initial_value(config.script_vars[n]))}

\* C6: when every script variable's computation succeeds, generate_initial_state
\* returns a mapping over exactly the script-variable and static names, a static name
\* mapped to its static value and any other name to its script variable's computed one.
C6_StaticOverComputed ==
    (res.op = "generate_initial_state" /\ FailingVars(res.self) = {}) =>
        LET script == res.self.script_vars
            static == res.self.initial_variables
        IN  /\ IsOk(res.ret)
            /\ DOMAIN res.ret.value = (DOMAIN script) \cup (DOMAIN static)
            /\ \A n \in DOMAIN static : res.ret.value[n] = static[n]
            /\ \A n \in (DOMAIN script) \ (DOMAIN static) :
                   res.ret.value[n] = initial_value(script[n]).value

\* the state was computed for a configuration where x is a script variable computed
\* to "a" and a static variable of value "b"
C6_Witness ==
    /\ res.op = "generate_initial_state"
    /\ IsOk(res.ret)
    /\ "x" \in DOMAIN res.self.script_vars
    /\ "x" \in DOMAIN res.self.initial_variables
    /\ initial_value(res.self.script_vars["x"]) = Ok("a")
    /\ res.self.initial_variables["x"] = "b"
    /\ "s" \in DOMAIN res.self.script_vars

\* C7: when the computation of some script variable fails, generate_initial_state
\* returns an error of one of the failing variables and no mapping, and the EwwConfig
\* it was called on is as before.
C7_FailureAborts ==
    (res.op = "generate_initial_state" /\ FailingVars(res.self) # {}) =>
        /\ IsErr(res.ret)
        /\ DOMAIN res.ret = {"tag", "error"}
        /\ \E n \in FailingVars(res.self) :
               res.ret = initial_value(res.self.script_vars[n])
        /\ eww_config = res.self

\* the state computation failed for a configuration with one failing script variable,
\* another that succeeds, and a static variable
C7_Witness ==
    /\ res.op = "generate_initial_state"
    /\ IsErr(res.ret)
    /\ Cardinality(FailingVars(res.self)) = 1
    /\ Cardinality(DOMAIN res.self.script_vars) >= 3
    /\ DOMAIN res.self.initial_variables # {}

\* the windows of a document whose widget is not among its widget definitions
Unresolved(doc) ==
    {w \in DOMAIN doc.window_definitions :
        doc.window_definitions[w].widget \notin DOMAIN doc.widget_definitions}

\* C8: read_from_file returns a configuration exactly when the path exists, the
\* document parses and every window resolves; that configuration holds every window,
\* widget and variable of the document and becomes the caller's snapshot; otherwise
\* it returns an error and nothing else, and the caller's snapshot is the one held
\* before the load.
C8_LoadAllOrNothing ==
    res.op = "read_from_file" =>
        LET complete == /\ exists(res.path)
                        /\ IsOk(res.parsed)
                        /\ Unresolved(res.parsed.value) = {}
        IN  /\ IsOk(res.ret) <=> complete
            /\ IsOk(res.ret) =>
                   LET doc == res.parsed.value
                       config == res.ret.value
                   IN  /\ DOMAIN config.windows = DOMAIN doc.window_definitions
                       /\ config.widgets = doc.widget_definitions
                       /\ DOMAIN config.initial_variables = DOMAIN doc.var_definitions
                       /\ DOMAIN doc.script_vars \subseteq DOMAIN config.script_vars
                       /\ eww_config = config
            /\ IsErr(res.ret) =>
                   /\ DOMAIN res.ret = {"tag", "error"}
                   /\ eww_config = res.prev

\* a load failed on one window of two that names a missing widget, while the caller
\* held a configuration loaded before
C8_Witness ==
    /\ res.op = "read_from_file"
    /\ IsErr(res.ret)
    /\ exists(res.path)
    /\ IsOk(res.parsed)
    /\ Cardinality(Unresolved(res.parsed.value)) = 1
    /\ Cardinality(DOMAIN res.parsed.value.window_definitions) = 2
    /\ res.prev # DefaultConfig

\* the root path of the call is bad: it does not exist, or it is a regular file where
\* from_config_dir requires a directory
BadRootPath ==
    /\ res.op \in {"from_config_dir", "read_from_file"}
    /\ \/ ~exists(res.path)
       \/ res.op = "from_config_dir" /\ is_file(res.path)

C12_InbuiltMerge ==
    (res.op = "read_from_file" /\ IsOk(res.ret)) =>
        LET user == res.parsed.value.script_vars
            inbuilt == get_inbuilt_vars
            merged == res.ret.value.script_vars
        IN  /\ DOMAIN merged = (DOMAIN user) \cup (DOMAIN inbuilt)
            /\ \A n \in DOMAIN inbuilt : merged[n] = inbuilt[n]
            /\ \A n \in (DOMAIN user) \ (DOMAIN inbuilt) : merged[n] = user[n]
            /\ eww_config.script_vars = merged

\* a document that defines the inbuilt name EWW_RAM with a command of its own, and a
\* script variable of another name, was loaded
C12_Witness ==
    /\ res.op = "read_from_file"
    /\ IsOk(res.ret)
    /\ "EWW_RAM" \in DOMAIN res.parsed.value.script_vars
    /\ res.parsed.value.script_vars["EWW_RAM"] # get_inbuilt_vars["EWW_RAM"]
    /\ "s" \in DOMAIN res.parsed.value.script_vars
    /\ "s" \in DOMAIN res.ret.value.script_vars

====
